---------------------------- MODULE Spec2Model ----------------------------
(***************************************************************************)
(* A model of the blog-generation pipeline of my-portfolio:                *)
(*   scripts/generate_daily_blogs.py       (the batch flow)                *)
(*   scripts/publish_yesterday_git_blog.py (the single-date flow)          *)
(*                                                                         *)
(* The specifications of the module:                                       *)
(*   SpecClient  one call of call_openrouter, in either flow               *)
(*   SpecSelect  the batch flow's target selection over a wide input space *)
(*   Spec        one whole run of main() of either flow                    *)
(*   SpecRerun   runs of main() repeated over the directory they leave     *)
(*   SpecTags    the normalisation of the reply's tags, in either flow     *)
(*   SpecSlug    slugify over short and over-long titles                   *)
(*   SpecParse   parse_json_response over wrapped and damaged replies      *)
(*   SpecHints   build_stack_hints over project lists of any order         *)
(*   SpecCollect collect_commits_for_date over failing repositories        *)
(***************************************************************************)
EXTENDS Integers, Sequences, FiniteSets, TLC

VARIABLES
    \* ---- one call of call_openrouter ----
    cflow,      \* which script's call_openrouter runs: "batch" or "single"
    attempt,    \* the loop variable of `for attempt in range(6)`
    cstate,     \* "idle", "calling", "returned" or "raised"
    attempts,   \* one entry per request sent: the response and the sleep after it
    cerr,       \* the RuntimeError raised, NoErr while none
    \* ---- one run of main() ----
    prog,       \* the script that runs: "batch" or "single"
    args,       \* the parsed command line
    daily,      \* the ideas feed: data["daily"], date -> day_data
    fs,         \* the documents in BLOG_DIR: records [day, slug]
    fs0,        \* BLOG_DIR as it was when the run started
    pc,         \* where main() is
    exit,       \* the process exit status, Running until the process ends
    fault,      \* what ended the run with an exception, "none" otherwise
    existing,   \* batch: existing_posts_by_date(); single: existing_post_for_date()
    targets,    \* batch: the work list, a sequence of dates
    task,       \* batch: per date, the future of generate_one_post; single: the one unit
    tally,      \* batch: the counters created, failed, completed
    effects,    \* side effects so far: subprocess runs, requests sent, git commands
    run,        \* the number of this run of the script
    prev,       \* what the previous run targeted and created
    api_key,    \* what load_api_key() returned, NoKey until it has
    commits,    \* single: how many commits collect_commits_for_date() returned
    \* ---- one application of a pure function ----
    given,      \* the argument the function is applied to
    result      \* what it returned, NoResult until it has

clientVars == <<cflow, attempt, cstate, attempts, cerr>>
runVars == <<prog, args, daily, fs, fs0, pc, exit, fault, existing, targets,
             task, tally, effects, run, prev, commits, api_key>>
pureVars == <<given, result>>

Min(a, b) == IF a <= b THEN a ELSE b

(***************************************************************************)
(* The Generation Client: call_openrouter                                  *)
(***************************************************************************)
Flows == {"batch", "single"}

\* range(6): the number of loop iterations.
RetryLimit == 6

\* `attempt < 5`: the last loop index, at which nothing is retried.
LastAttempt == 5

\* [:400] of the decoded error body.
BodyLimit == 400

\* min(30, ...): the cap of one backoff sleep.
BackoffCap == 30

\* The longest error body the service sends in the model.
MaxBodyLen == 401

\* What urlopen can do on one attempt: return a completion (OK), raise
\* URLError (URLERR), or raise HTTPError with a status code.  A status code
\* is an HTTP error status; 5xx both on and off the single flow's list.
OK == 200
URLERR == 0
HTTPCodes == {400, 403, 429, 500, 501, 503}
Responses == {OK, URLERR} \cup HTTPCodes

\* The body exc.read() yields: its length, or -1 when the read itself raises
\* (the inner `except Exception: pass` leaves body = "").
BodyLens == {-1, 0, BodyLimit, MaxBodyLen}

NoErr == [kind |-> "none", code |-> 0, body |-> 0]

\* The sleep growing by a constant step: 2 * attempt + 2.
BackoffLinear(a) == Min(BackoffCap, 2 * a + 2)

\* time.sleep(min(30, 2 ** attempt + 2))
Backoff(a) == Min(BackoffCap, 2 ^ a + 2)

\* generate_daily_blogs.py: `exc.code == 429` or `exc.code >= 500`
RetryableBatch(code) == code = 429 \/ code >= 500

\* publish_yesterday_git_blog.py: `exc.code in (429, 500, 502, 503, 504)`
RetryableSingle(code) == code \in {429, 500, 502, 503, 504}

Retryable(flow, code) ==
    IF flow = "batch" THEN RetryableBatch(code) ELSE RetryableSingle(code)

\* ErrorBody without the [:400] slice.
ErrorBodyUncut(len) == IF len < 0 THEN 0 ELSE len

\* body = exc.read().decode(...)[:400], "" when the read fails
ErrorBody(len) == IF len < 0 THEN 0 ELSE Min(len, BodyLimit)

\* The branch of the except clauses taken for response r at loop index a:
\* "retry" (sleep and continue), or the error raised.
HandleFailure(flow, a, r, len) ==
    IF r = URLERR
    THEN IF a < LastAttempt
         THEN [act |-> "retry", err |-> NoErr]
         ELSE [act |-> "raise", err |-> [kind |-> "connection", code |-> 0, body |-> 0]]
    ELSE IF Retryable(flow, r) /\ a < LastAttempt
         THEN [act |-> "retry", err |-> NoErr]
         ELSE [act |-> "raise",
               err |-> [kind |-> "http", code |-> r, body |-> ErrorBody(len)]]

\* One iteration of the loop, or the statement after the loop.
call_openrouter ==
    /\ cstate = "calling"
    /\ IF attempt < RetryLimit
       THEN \E r \in Responses, len \in BodyLens :
              IF r = OK
              THEN /\ attempts' = Append(attempts, [resp |-> r, slept |-> 0])
                   /\ cstate' = "returned"
                   /\ UNCHANGED <<attempt, cerr>>
              ELSE LET h == HandleFailure(cflow, attempt, r, len) IN
                   IF h.act = "retry"
                   THEN /\ attempts' = Append(attempts,
                                          [resp |-> r, slept |-> Backoff(attempt)])
                        /\ attempt' = attempt + 1
                        /\ UNCHANGED <<cstate, cerr>>
                   ELSE /\ attempts' = Append(attempts, [resp |-> r, slept |-> 0])
                        /\ cstate' = "raised"
                        /\ cerr' = h.err
                        /\ UNCHANGED attempt
       ELSE \* raise RuntimeError("OpenRouter request failed after retries")
            /\ cstate' = "raised"
            /\ cerr' = [kind |-> "exhausted", code |-> 0, body |-> 0]
            /\ UNCHANGED <<attempt, attempts>>
    /\ UNCHANGED <<cflow, runVars, pureVars>>

\* No pure function is being applied.
NoResult == [kind |-> "none"]
PureIdle ==
    /\ given = NoResult
    /\ result = NoResult

\* No call is in progress.
ClientIdle ==
    /\ cflow = "batch"
    /\ attempt = 0
    /\ cstate = "idle"
    /\ attempts = <<>>
    /\ cerr = NoErr

(***************************************************************************)
(* Text: titles and slugs are sequences of one-character strings           *)
(***************************************************************************)
\* text[:80]
SlugLimit == 80

Untitled == <<"u", "n", "t", "i", "t", "l", "e", "d">>

LowerLetters == {"a", "b", "c", "d", "e", "g", "i", "l", "n", "o", "p", "r",
                 "t", "u", "y"}
Digits == {"0", "1", "2", "3", "4", "5", "6", "7", "8", "9"}

\* [a-z0-9]
IsAlnum(c) == c \in LowerLetters \cup Digits

\* str.lower(), on the letters the model uses
LowerChar(c) ==
    CASE c = "A" -> "a"
      [] c = "B" -> "b"
      [] c = "D" -> "d"
      [] OTHER -> c

Lower(s) == [i \in 1..Len(s) |-> LowerChar(s[i])]

\* The positions of s whose character is not in drop.
Kept(s, drop) == {i \in 1..Len(s) : s[i] \notin drop}

\* s from its first character that is not in drop.
LStrip(s, drop) ==
    LET k == Kept(s, drop)
    IN  IF k = {} THEN <<>>
        ELSE SubSeq(s, CHOOSE i \in k : \A j \in k : i <= j, Len(s))

\* s up to its last character that is not in drop.
RStrip(s, drop) ==
    LET k == Kept(s, drop)
    IN  IF k = {} THEN <<>>
        ELSE SubSeq(s, 1, CHOOSE i \in k : \A j \in k : i >= j)

\* str.strip() with no argument strips whitespace; strip("-") strips hyphens.
Strip(s, drop) == RStrip(LStrip(s, drop), drop)

Whitespace == {" "}

\* re.sub(r"[^a-z0-9]+", "-", text): each maximal run of other characters
\* becomes one hyphen.
SubNonAlnum(s) ==
    LET sub == [i \in 1..Len(s) |->
                  IF IsAlnum(s[i]) THEN s[i]
                  ELSE IF i = 1 \/ IsAlnum(s[i - 1]) THEN "-"
                  ELSE ""]
        Stays(c) == c # ""
    IN  SelectSeq(sub, Stays)

slugify(text) ==
    LET t1 == Strip(Lower(text), Whitespace)
        t2 == SubNonAlnum(t1)
        t3 == Strip(t2, {"-"})
        t4 == SubSeq(t3, 1, Min(Len(t3), SlugLimit))
    IN  IF t4 = <<>> THEN Untitled ELSE t4

(***************************************************************************)
(* The documents of BLOG_DIR                                               *)
(***************************************************************************)
\* The dates of the model, 1..NumDays: ISO dates compare as strings the way
\* these compare as numbers.  0 stands for the empty string of an unset
\* --from-date, --to-date or --limit.
NumDays == 2

Days == 1..NumDays

Doc(d, slug) == [day |-> d, slug |-> slug]

DocsOf(dir, d) == {f \in dir : f.day = d}

\* existing_posts_by_date(): date -> the documents whose name starts with it,
\* with a key only for a date that has one.
existing_posts_by_date(dir) ==
    [d \in {f.day : f \in dir} |-> DocsOf(dir, d)]

\* existing.get(day, []) handing out the documents of every date.
ExistingForAnyDate(ex, d) == UNION {ex[k] : k \in DOMAIN ex}

\* existing.get(day, [])
ExistingFor(ex, d) == IF d \in DOMAIN ex THEN ex[d] ELSE {}

(***************************************************************************)
(* The Target Selector of the batch flow                                   *)
(***************************************************************************)
Max(S) == CHOOSE m \in S : \A x \in S : x <= m

\* sorted(daily.keys(), reverse=True)
RECURSIVE SortedDesc(_)
SortedDesc(S) ==
    IF S = {} THEN <<>>
    ELSE LET m == Max(S) IN <<m>> \o SortedDesc(S \ {m})

\* IsTarget with the existing-document test dropped.
IsTargetIgnoringExisting(a, feed, ex, day) ==
    /\ ~(a.from_date # 0 /\ day < a.from_date)
    /\ ~(a.to_date # 0 /\ day > a.to_date)
    /\ ~feed[day].error
    /\ feed[day].ideas # 0

\* The body of `for day in days`: TRUE when the day is appended to targets.
IsTarget(a, feed, ex, day) ==
    /\ ~(a.from_date # 0 /\ day < a.from_date)
    /\ ~(a.to_date # 0 /\ day > a.to_date)
    /\ ~feed[day].error
    /\ feed[day].ideas # 0
    /\ ~(day \in DOMAIN ex /\ ~a.overwrite)

\* SelectTargets with the days taken oldest first.
RECURSIVE SortedAsc(_)
SortedAsc(S) ==
    IF S = {} THEN <<>>
    ELSE LET m == Max(S) IN SortedAsc(S \ {m}) \o <<m>>

\* targets[: args.limit] when args.limit > 0
Capped(a, t) ==
    IF a.limit # 0 /\ a.limit > 0 THEN SubSeq(t, 1, Min(a.limit, Len(t))) ELSE t

DaysOrder(S) == SortedDesc(S)

\* main(), `existing = ...` to `targets = targets[: args.limit]`
SelectTargets(a, feed, ex) ==
    LET days == DaysOrder(DOMAIN feed)
        Keep(day) == IsTarget(a, feed, ex, day)
    IN  Capped(a, SelectSeq(days, Keep))

(***************************************************************************)
(* The generator's reply, as one unit of work sees it                      *)
(***************************************************************************)
TitleA == <<"A", "!", " ", "b">>
Blank == <<" ">>
Body == <<"b", "o", "d", "y">>
OldSlug == <<"o", "l", "d">>

\* "neterr": call_openrouter raised; "garbage": parse_json_response raised;
\* "json": a decoded mapping.  An empty title or content stands for an absent
\* key as well: parsed.get(k) or "" and str(parsed.get(k, "")) treat both alike.
NoReply == [kind |-> "none", title |-> <<>>, content |-> <<>>]
Replies ==
    {[kind |-> "neterr", title |-> <<>>, content |-> <<>>],
     [kind |-> "garbage", title |-> <<>>, content |-> <<>>]}
    \cup [kind : {"json"}, title : {<<>>, Blank, TitleA}, content : {<<>>, Body}]

\* What call_openrouter can bring with the key it is given: a request with
\* an empty bearer token is refused (HTTP 401), which call_openrouter raises.
RepliesFor(key) ==
    IF key = "" THEN {r \in Replies : r.kind = "neterr"} ELSE Replies

\* f"Daily engineering recap - {target_date}", its dash written as a hyphen:
\* neither is in [a-z0-9].
DefaultTitle(d) ==
    <<"D", "a", "i", "l", "y", " ", "e", "n", "g", "i", "n", "e", "e", "r", "i",
      "n", "g", " ", "r", "e", "c", "a", "p", " ", "-", " ", ToString(d)>>

\* generate_one_post: title = (parsed.get("title") or "").strip()
BatchTitle(r, d) == Strip(r.title, Whitespace)

\* main() of the single flow: str(parsed.get("title", "")).strip() or the default
SingleTitle(r, d) ==
    LET t == Strip(r.title, Whitespace) IN IF t = <<>> THEN DefaultTitle(d) ELSE t

TitleOf(p, r, d) == IF p = "batch" THEN BatchTitle(r, d) ELSE SingleTitle(r, d)

ContentOf(r) == Strip(r.content, Whitespace)

\* UnitFailure without the validation of title and content.
UnitFailureUnvalidated(p, r, d) ==
    IF r.kind = "neterr" THEN "generation"
    ELSE IF r.kind = "garbage" THEN "decode"
    ELSE "none"

\* Why the unit fails on reply r, "none" when it goes on to write.
\* batch: `if not title or not content: raise`; single: `if not content: raise`.
UnitFailure(p, r, d) ==
    IF r.kind = "neterr" THEN "generation"
    ELSE IF r.kind = "garbage" THEN "decode"
    ELSE IF p = "batch" /\ (BatchTitle(r, d) = <<>> \/ ContentOf(r) = <<>>) THEN "validation"
    ELSE IF p = "single" /\ ContentOf(r) = <<>> THEN "validation"
    ELSE "none"

\* out_path = BLOG_DIR / f"{day}-{slug}.mdx"
OutPath(p, r, d) == Doc(d, slugify(TitleOf(p, r, d)))

NoTask == [st |-> "none", reply |-> NoReply, out |-> "none", wrote |-> {}, removed |-> {}]
Queued == [NoTask EXCEPT !.st = "queued"]

Running == -1
NoTally == [created |-> 0, failed |-> 0, completed |-> 0]
NoEffects == [subproc |-> 0, requests |-> {}, git |-> <<>>]
NoPrev == [targets |-> <<>>, created |-> {}, exit |-> Running, fault |-> "none"]

\* api_key before load_api_key() has been called.
NoKey == "<none>"

\* str.strip() of a value of the environment: blank, or a key.
StripKey(v) == IF v = " " THEN "" ELSE v

\* Where load_api_key looks: the variable OPENROUTER_API_KEY ("" when unset)
\* and the value of the first OPENROUTER_API_KEY= line of the .env files
\* ("<none>" when no file has such a line).
KeyEnvs == [var : {"", " ", "sk"}, line : {NoKey, "", "sk"}]

\* load_api_key(): the key returned, or the RuntimeError raised.
load_api_key(env) ==
    IF StripKey(env.var) # "" THEN [raised |-> FALSE, key |-> StripKey(env.var)]
    ELSE IF env.line = NoKey THEN [raised |-> TRUE, key |-> NoKey]
    ELSE [raised |-> FALSE, key |-> StripKey(env.line)]

\* An exception leaves main(): the interpreter exits with status 1.
Crash(kind) ==
    /\ pc' = "exit"
    /\ exit' = 1
    /\ fault' = kind

Range(s) == {s[i] : i \in 1..Len(s)}

(***************************************************************************)
(* The batch flow: generate_daily_blogs.py                                 *)
(***************************************************************************)
\* WorkerCount without the floor of 1.
WorkerCountRaw(a) == a.workers

\* max(1, int(args.workers))
WorkerCount(a) == IF a.workers > 1 THEN a.workers ELSE 1

\* main() up to the submission of the tasks.  The environment decides whether
\* the step-1 subprocess succeeds, whether the ideas file exists and whether
\* an API key is found; daily is the feed as main() reads it.
batch_main_start ==
    /\ prog = "batch"
    /\ pc = "start"
    /\ \E regenOK \in BOOLEAN, feedExists \in BOOLEAN, env \in KeyEnvs :
         LET ex == existing_posts_by_date(fs)
             loaded == load_api_key(env)
             tg == SelectTargets(args, daily, ex)
             eff == IF args.regen_step1
                    THEN [effects EXCEPT !.subproc = @ + 1]
                    ELSE effects
         IN  /\ effects' = eff
             /\ IF args.regen_step1 /\ ~regenOK
                THEN /\ Crash("regen")
                     /\ UNCHANGED <<existing, targets, task, api_key>>
                ELSE IF ~feedExists \/ DOMAIN daily = {}
                THEN /\ Crash("config")
                     /\ UNCHANGED <<existing, targets, task, api_key>>
                ELSE /\ existing' = ex
                     /\ targets' = tg
                     /\ IF args.dry_run
                        THEN /\ pc' = "exit"
                             /\ exit' = 0
                             /\ UNCHANGED <<fault, task, api_key>>
                        ELSE IF loaded.raised
                        THEN /\ Crash("config")
                             /\ UNCHANGED <<task, api_key>>
                        ELSE /\ pc' = "pool"
                             /\ api_key' = loaded.key
                             /\ task' = [d \in Days |->
                                           IF d \in Range(tg) THEN Queued ELSE NoTask]
                             /\ UNCHANGED <<exit, fault>>
    /\ UNCHANGED <<prog, args, daily, fs, fs0, tally, run, prev, commits, clientVars, pureVars>>

\* ToUnlink that unlinks nothing.
ToUnlinkNothing(a, ex, d) == {}

\* What generate_one_post unlinks before it generates.
ToUnlink(a, ex, d) == IF a.overwrite THEN ExistingFor(ex, d) ELSE {}

\* A worker takes a queued task: generate_one_post up to the network call.
task_start(d) ==
    /\ prog = "batch"
    /\ pc = "pool"
    /\ task[d].st = "queued"
    /\ Cardinality({e \in Days : task[e].st = "running"}) < WorkerCount(args)
    /\ LET gone == ToUnlink(args, existing, d) IN
         /\ fs' = fs \ gone
         /\ task' = [task EXCEPT ![d].st = "running", ![d].removed = gone \cap fs]
    /\ effects' = [effects EXCEPT !.requests = @ \cup {d}]
    /\ UNCHANGED api_key
    /\ UNCHANGED <<prog, args, daily, fs0, pc, exit, fault, existing, targets,
                   tally, run, prev, commits, clientVars, pureVars>>

\* The rest of generate_one_post: the reply is decoded and validated and the
\* document written, or the task raises.
task_finish(d) ==
    /\ prog = "batch"
    /\ pc = "pool"
    /\ task[d].st = "running"
    /\ \E r \in RepliesFor(api_key) :
         IF UnitFailure("batch", r, d) # "none"
         THEN /\ task' = [task EXCEPT ![d].st = "done", ![d].reply = r,
                                      ![d].out = "failed"]
              /\ UNCHANGED fs
         ELSE LET path == OutPath("batch", r, d) IN
              /\ fs' = fs \cup {path}
              /\ task' = [task EXCEPT ![d].st = "done", ![d].reply = r,
                                      ![d].out = "created", ![d].wrote = {path}]
    /\ UNCHANGED api_key
    /\ UNCHANGED <<prog, args, daily, fs0, pc, exit, fault, existing, targets,
                   tally, effects, run, prev, commits, clientVars, pureVars>>

\* Counted without looking at how the future ended.
CountedAlwaysCreated(t, out) ==
    [t EXCEPT !.completed = @ + 1, !.created = @ + 1]

\* One iteration of `for future in as_completed(future_map)`.
Counted(t, out) ==
    IF out = "created"
    THEN [t EXCEPT !.completed = @ + 1, !.created = @ + 1]
    ELSE [t EXCEPT !.completed = @ + 1, !.failed = @ + 1]

collect(d) ==
    /\ prog = "batch"
    /\ pc = "pool"
    /\ task[d].st = "done"
    /\ tally' = Counted(tally, task[d].out)
    /\ task' = [task EXCEPT ![d].st = "collected"]
    /\ UNCHANGED api_key
    /\ UNCHANGED <<prog, args, daily, fs, fs0, pc, exit, fault, existing, targets,
                   effects, run, prev, commits, clientVars, pureVars>>

\* ExitStatus that always reports success.
ExitStatusZero(t) == 0

\* return 0 if failed == 0 else 1
ExitStatus(t) == IF t.failed = 0 THEN 0 ELSE 1

\* The pool is drained: the summary is printed and main() returns.
batch_main_end ==
    /\ prog = "batch"
    /\ pc = "pool"
    /\ \A d \in Days : task[d].st \in {"none", "collected"}
    /\ pc' = "exit"
    /\ exit' = ExitStatus(tally)
    /\ UNCHANGED api_key
    /\ UNCHANGED <<prog, args, daily, fs, fs0, fault, existing, targets, task,
                   tally, effects, run, prev, commits, clientVars, pureVars>>

(***************************************************************************)
(* The single-date flow: publish_yesterday_git_blog.py                     *)
(***************************************************************************)
\* The most commits one date has in the model.
MaxCommits == 2

\* `commits` before collect_commits_for_date() has been called.
NotCollected == -1

\* `if not commits:` without the test.
NoCommitsIgnored(n) == FALSE

\* `if not commits:` -- no repository had a commit on the date.
NoCommits(n) == n = 0

\* The characters of a file name in the order of their code points.
CharOrder == <<"-", ".", "0", "1", "2", "3", "4", "5", "6", "7", "8", "9",
               "a", "b", "c", "d", "e", "g", "i", "l", "n", "o", "p", "r",
               "t", "u", "y">>

Ord(c) == CHOOSE i \in 1..Len(CharOrder) : CharOrder[i] = c

RECURSIVE SeqLess(_, _)
SeqLess(s, t) ==
    IF t = <<>> THEN FALSE
    ELSE IF s = <<>> THEN TRUE
    ELSE IF Head(s) = Head(t) THEN SeqLess(Tail(s), Tail(t))
    ELSE Ord(Head(s)) < Ord(Head(t))

\* The part of the file name after the date: "-{slug}.mdx"
NameTail(f) == f.slug \o <<".">>

\* existing_post_for_date() finding no document.
existing_post_missed(dir, d) == {}

\* existing_post_for_date(): the first of sorted(BLOG_DIR.glob(f"{date}-*.mdx")),
\* as a set: empty for None.
existing_post_for_date(dir, d) ==
    LET m == DocsOf(dir, d)
    IN  {f \in m : \A g \in m \ {f} : SeqLess(NameTail(f), NameTail(g))}

\* `if existing and args.overwrite: existing.unlink(missing_ok=True)`
SingleToUnlink(a, ex) == IF a.overwrite THEN ex ELSE {}

\* main() up to the call of call_openrouter.  The environment decides how many
\* commits the date has, whether the repository registry imports and whether
\* an API key is found.
single_main_start ==
    /\ prog = "single"
    /\ pc = "start"
    /\ \E n \in 0..MaxCommits, reposOK \in BOOLEAN, env \in KeyEnvs :
         LET ex == existing_post_for_date(fs, args.date)
             loaded == load_api_key(env)
         IN
         /\ existing' = ex
         /\ IF ex # {} /\ ~args.overwrite
            THEN /\ pc' = "exit"
                 /\ exit' = 0
                 /\ UNCHANGED <<fault, commits, task, effects, api_key>>
            ELSE IF ~reposOK
            THEN /\ Crash("config")
                 /\ UNCHANGED <<commits, task, effects, api_key>>
            ELSE /\ commits' = n
                 /\ IF NoCommits(n) \/ args.dry_run
                    THEN /\ pc' = "exit"
                         /\ exit' = 0
                         /\ UNCHANGED <<fault, task, effects, api_key>>
                    ELSE IF loaded.raised
                    THEN /\ Crash("config")
                         /\ UNCHANGED <<task, effects, api_key>>
                    ELSE /\ pc' = "gen"
                         /\ api_key' = loaded.key
                         /\ task' = [task EXCEPT ![args.date].st = "running"]
                         /\ effects' = [effects EXCEPT !.requests = @ \cup {args.date}]
                         /\ UNCHANGED <<exit, fault>>
    /\ UNCHANGED <<prog, args, daily, fs, fs0, targets, tally, run, prev, clientVars, pureVars>>

\* main() from the reply to the written document.
single_generate ==
    /\ prog = "single"
    /\ pc = "gen"
    /\ \E r \in RepliesFor(api_key) :
         LET d == args.date
             why == UnitFailure("single", r, d)
         IN  IF why # "none"
             THEN /\ Crash(why)
                  /\ task' = [task EXCEPT ![d].st = "done", ![d].reply = r,
                                          ![d].out = "failed"]
                  /\ UNCHANGED fs
             ELSE LET path == OutPath("single", r, d)
                      gone == SingleToUnlink(args, existing)
                  IN  /\ fs' = (fs \ gone) \cup {path}
                      /\ task' = [task EXCEPT ![d].st = "done", ![d].reply = r,
                                              ![d].out = "created",
                                              ![d].wrote = {path},
                                              ![d].removed = gone \cap fs]
                      /\ pc' = "git_add"
                      /\ UNCHANGED <<exit, fault>>
    /\ UNCHANGED api_key
    /\ UNCHANGED <<prog, args, daily, fs0, existing, targets, tally, effects,
                   run, prev, commits, clientVars, pureVars>>

\* run() with the return code never looked at.
RunNeverRaises(ok) == FALSE

\* run(): `if proc.returncode != 0: raise RuntimeError(...)`
RunRaises(ok) == ~ok

\* run(["git", ...]): one command of git_commit_and_push; a non-zero return
\* code raises.
GitStep(here, op, next) ==
    /\ prog = "single"
    /\ pc = here
    /\ \E ok \in BOOLEAN :
         /\ effects' = [effects EXCEPT !.git = Append(@, [op |-> op, ok |-> ok])]
         /\ IF ~RunRaises(ok)
            THEN /\ pc' = next
                 /\ exit' = IF next = "exit" THEN 0 ELSE exit
                 /\ UNCHANGED fault
            ELSE Crash("publish")
    /\ UNCHANGED api_key
    /\ UNCHANGED <<prog, args, daily, fs, fs0, existing, targets, task, tally,
                   run, prev, commits, clientVars, pureVars>>

git_add == GitStep("git_add", "add", "git_commit")
git_commit == GitStep("git_commit", "commit", "git_push")
git_push == GitStep("git_push", "push", "exit")

(***************************************************************************)
(* Running the script again                                                *)
(***************************************************************************)
\* The most runs of a script in one behaviour.
MaxRuns == 2

\* The same command line is run again over the directory the last run left.
restart ==
    /\ pc = "exit"
    /\ run < MaxRuns
    /\ run' = run + 1
    /\ prev' = [targets |-> targets,
                created |-> {d \in Days : task[d].out = "created"},
                exit |-> exit,
                fault |-> fault]
    /\ fs0' = fs
    /\ pc' = "start"
    /\ exit' = Running
    /\ fault' = "none"
    /\ existing' = IF prog = "batch" THEN <<>> ELSE {}
    /\ targets' = <<>>
    /\ task' = [d \in Days |-> NoTask]
    /\ tally' = NoTally
    /\ effects' = NoEffects
    /\ commits' = NotCollected
    /\ api_key' = NoKey
    /\ UNCHANGED <<prog, args, daily, fs, clientVars, pureVars>>

(***************************************************************************)
(* The inputs of the model                                                 *)
(***************************************************************************)
\* The longest ideas list of a day.
MaxIdeas == 2

\* The largest --limit.
MaxLimit == 2

\* The largest --workers.
MaxWorkers == 2

DayData == [error : BOOLEAN, ideas : {0, MaxIdeas}]

\* Every feed over the model's dates.
Feeds == UNION {[K -> DayData] : K \in SUBSET Days}

\* The feeds of whole runs: a date is absent, usable, or marked as an error.
RunFeeds ==
    UNION {[K -> {[error |-> FALSE, ideas |-> MaxIdeas],
                  [error |-> TRUE, ideas |-> 0]}] : K \in SUBSET Days}

\* The directories a run starts from: at most one document per date.
Dirs ==
    {S \in SUBSET {Doc(d, s) : d \in Days, s \in {OldSlug, slugify(TitleA)}} :
        \A d \in Days : Cardinality(DocsOf(S, d)) <= 1}

NoArgs == [overwrite |-> FALSE, dry_run |-> FALSE, regen_step1 |-> FALSE,
           limit |-> 0, from_date |-> 0, to_date |-> 0, workers |-> 0, date |-> 0]

RunStart ==
    /\ fs0 = fs
    /\ pc = "start"
    /\ exit = Running
    /\ fault = "none"
    /\ existing = IF prog = "batch" THEN <<>> ELSE {}
    /\ targets = <<>>
    /\ task = [d \in Days |-> NoTask]
    /\ tally = NoTally
    /\ effects = NoEffects
    /\ commits = NotCollected
    /\ api_key = NoKey
    /\ run = 1
    /\ prev = NoPrev

RunIdle ==
    /\ prog = "batch"
    /\ args = NoArgs
    /\ daily = <<>>
    /\ fs = {}
    /\ RunStart

\* The selector alone: every feed, directory and filter of the bounds.
SelectInit ==
    /\ prog = "batch"
    /\ args \in [overwrite : BOOLEAN, dry_run : {FALSE}, regen_step1 : {FALSE},
                 limit : 0..MaxLimit, from_date : {0} \cup Days,
                 to_date : {0} \cup Days, workers : {0}, date : {0}]
    /\ daily \in Feeds
    /\ fs \in Dirs
    /\ RunStart
    /\ ClientIdle
    /\ PureIdle

\* The selection of main(), applied to the inputs as they are.
select_targets ==
    /\ pc = "start"
    /\ existing' = existing_posts_by_date(fs)
    /\ targets' = SelectTargets(args, daily, existing_posts_by_date(fs))
    /\ pc' = "selected"
    /\ UNCHANGED api_key
    /\ UNCHANGED <<prog, args, daily, fs, fs0, exit, fault, task, tally, effects,
                   run, prev, commits, clientVars, pureVars>>

SelectNext == select_targets

BatchArgs ==
    [overwrite : BOOLEAN, dry_run : BOOLEAN, regen_step1 : BOOLEAN,
     limit : {0, 1}, from_date : {0}, to_date : {0}, workers : {0, MaxWorkers},
     date : {0}]

SingleArgs ==
    [overwrite : BOOLEAN, dry_run : BOOLEAN, regen_step1 : {FALSE},
     limit : {0}, from_date : {0}, to_date : {0}, workers : {0}, date : Days]

RunInit ==
    /\ prog \in {"batch", "single"}
    /\ IF prog = "batch"
       THEN args \in BatchArgs /\ daily \in RunFeeds
       ELSE args \in SingleArgs /\ daily = <<>>
    /\ fs \in Dirs
    /\ RunStart
    /\ ClientIdle
    /\ PureIdle

BatchNext ==
    \/ batch_main_start
    \/ \E d \in Days : task_start(d)
    \/ \E d \in Days : task_finish(d)
    \/ \E d \in Days : collect(d)
    \/ batch_main_end

SingleNext ==
    \/ single_main_start
    \/ single_generate
    \/ git_add
    \/ git_commit
    \/ git_push

RunNext == BatchNext \/ SingleNext

\* Runs that are repeated: no step-1 regeneration, so that the feed of the
\* second run is the feed of the first.
RerunInit ==
    /\ RunInit
    /\ ~args.regen_step1
    /\ args.workers = IF prog = "batch" THEN MaxWorkers ELSE 0

RerunNext == RunNext \/ restart

(***************************************************************************)
(* The tags of a reply                                                     *)
(***************************************************************************)
\* The most entries the reply's tag list has in the model.
MaxTags == 7

\* [:6]: the most tags kept.
TagLimit == 6

\* `if len(tags) < 3`, `[:3]`: the fewest tags written.
MinTags == 3

\* The entries of a tag list: blank, plain, and padded with a space.  An entry
\* that is no string is turned into one by str(t) and is then like a plain one.
TagTexts == {<<" ">>, <<"a">>, <<" ", "b">>}

\* parsed.get("tags"): absent (or None, or empty), something that is no list,
\* or a list.
TagValues ==
    {[form |-> "absent", items |-> <<>>], [form |-> "string", items |-> <<>>]}
    \cup {[form |-> "list", items |-> t] :
            t \in UNION {[1..n -> TagTexts] : n \in 0..MaxTags}}

\* The tags appended when fewer than three are left; a word stands for the
\* sequence of its characters.
FallbackTags(flow) ==
    IF flow = "batch"
    THEN <<<<"engineering">>, <<"software">>, <<"build-in-public">>>>
    ELSE <<<<"engineering">>, <<"git">>, <<"build-in-public">>>>

\* `tags = parsed.get("tags") or []`, `if not isinstance(tags, list): tags = []`
TagList(v) == IF v.form = "list" THEN v.items ELSE <<>>

\* [str(t).strip() for t in tags if str(t).strip()]
Usable(tags) ==
    LET stripped == [i \in 1..Len(tags) |-> Strip(tags[i], Whitespace)]
        NotEmpty(t) == t # <<>>
    IN  SelectSeq(stripped, NotEmpty)

\* The list without the [:6] slice.
TagsUncut(tags) == tags

\* [...][:6]
TagsCut(tags) == SubSeq(tags, 1, Min(Len(tags), TagLimit))

\* The tags written to the document for the value v of the reply's "tags".
NormalizeTags(flow, v) ==
    LET tags == TagsCut(Usable(TagList(v)))
    IN  IF Len(tags) < MinTags
        THEN SubSeq(tags \o FallbackTags(flow), 1, MinTags)
        ELSE tags

TagsInit ==
    /\ given \in [kind : {"tags"}, flow : Flows, value : TagValues]
    /\ result = NoResult
    /\ RunIdle
    /\ ClientIdle

normalize_tags ==
    /\ given.kind = "tags"
    /\ result = NoResult
    /\ result' = [kind |-> "tags", tags |-> NormalizeTags(given.flow, given.value)]
    /\ UNCHANGED <<given, clientVars, runVars>>

TagsNext == normalize_tags

(***************************************************************************)
(* slugify on titles of any length                                         *)
(***************************************************************************)
\* The most characters that follow the padding of a title in the model.
MaxTitleLen == 3

\* An upper-case and a lower-case letter, a digit, whitespace, a hyphen and
\* punctuation.
TitleChars == {"A", "a", "1", " ", "-", "!"}

\* n letters: what brings a title to the length at which [:80] cuts.
Pad(n) == [i \in 1..n |-> "a"]
PadLens == {0, SlugLimit - 1, SlugLimit}

Titles ==
    {Pad(n) \o t : n \in PadLens,
                   t \in UNION {[1..k -> TitleChars] : k \in 0..MaxTitleLen}}

SlugInit ==
    /\ given \in [kind : {"slug"}, text : Titles]
    /\ result = NoResult
    /\ RunIdle
    /\ ClientIdle

slugify_title ==
    /\ given.kind = "slug"
    /\ result = NoResult
    /\ result' = [kind |-> "slug", slug |-> slugify(given.text)]
    /\ UNCHANGED <<given, clientVars, runVars>>

SlugNext == slugify_title

(***************************************************************************)
(* parse_json_response.  A reply is a sequence of tokens: a fence marker,  *)
(* the word json, braces, a quote, a backslash, characters and spaces; the *)
(* JSON object of a reply is the object of one string: { " ... " }         *)
(***************************************************************************)
\* The most characters the string of a reply has in the model.
MaxContentLen == 3

\* The marker ``` as one token.
FENCE == "<fence>"
QUOTE == "\""
BS == "\\"
\* What the escapes \n and \uXXXX decode to.
LF == "<LF>"
UCHAR == "<U>"

\* The characters that make a backslash a valid JSON escape, ["\\/bfnrtu]:
\* the quote, the backslash, "n" for any of / b f n r t, and "u".
EscapeChars == {QUOTE, BS, "n", "u"}

\* The characters of the string a reply is meant to carry: "d" is a letter
\* that is no escape character and a hexadecimal digit as well.
ContentChars == {"d", "n", "u", BS}
Contents == UNION {[1..k -> ContentChars] : k \in 0..MaxContentLen}

RECURSIVE Flat(_)
Flat(ss) == IF ss = <<>> THEN <<>> ELSE Head(ss) \o Flat(Tail(ss))

\* The string as the generator writes it between the quotes: "clean" with
\* every backslash escaped, "raw" with the backslashes as they are.
Encode(content, mode) ==
    IF mode = "raw" THEN content
    ELSE Flat([i \in 1..Len(content) |->
                 IF content[i] = BS THEN <<BS, BS>> ELSE <<content[i]>>])

Object(content, mode) == <<"{", QUOTE>> \o Encode(content, mode) \o <<QUOTE, "}">>

Wraps == {"plain", "fence", "fence_json", "prose", "braced_prose"}

\* The text of the reply around its JSON object.
Wrap(w, obj) ==
    CASE w = "plain" -> obj
      [] w = "fence" -> <<FENCE, " ">> \o obj \o <<" ", FENCE>>
      [] w = "fence_json" -> <<FENCE, "json", " ">> \o obj \o <<" ", FENCE, " ">>
      [] w = "prose" -> <<"d", " ">> \o obj
      [] w = "braced_prose" -> <<"{", "d", "}", " ">> \o obj

ReplyText(g) == Wrap(g.wrap, Object(g.content, g.mode))

\* The scanner of a JSON string, from position i of s, just after the
\* opening quote: the decoded characters and the position after the closing
\* quote, or a failure.
ScanFailed == [ok |-> FALSE, val |-> <<>>, next |-> 0]
RECURSIVE Scan(_, _, _)
Scan(s, i, acc) ==
    IF i > Len(s) THEN ScanFailed
    ELSE IF s[i] = QUOTE THEN [ok |-> TRUE, val |-> acc, next |-> i + 1]
    ELSE IF s[i] # BS THEN Scan(s, i + 1, Append(acc, s[i]))
    ELSE IF i + 1 > Len(s) THEN ScanFailed
    ELSE IF s[i + 1] \in {BS, QUOTE} THEN Scan(s, i + 2, Append(acc, s[i + 1]))
    ELSE IF s[i + 1] = "n" THEN Scan(s, i + 2, Append(acc, LF))
    ELSE IF s[i + 1] = "u" /\ i + 5 <= Len(s) /\ \A k \in 2..5 : s[i + k] = "d"
         THEN Scan(s, i + 6, Append(acc, UCHAR))
    ELSE ScanFailed

\* json.loads(candidate): the decoded string, or JSONDecodeError.
LoadsFailed == [ok |-> FALSE, value |-> <<>>]
Loads(text) ==
    LET c == Strip(text, Whitespace) IN
    IF Len(c) >= 4 /\ c[1] = "{" /\ c[2] = QUOTE
    THEN LET r == Scan(c, 3, <<>>)
         IN  IF r.ok /\ r.next = Len(c) /\ c[r.next] = "}"
             THEN [ok |-> TRUE, value |-> r.val]
             ELSE LoadsFailed
    ELSE LoadsFailed

\* The repair pass leaving the text as it is.
RepairNothing(c) == c

\* re.sub(r"(?<!\\)\\(?![\"\\/bfnrtu])", r"\\\\", candidate): a backslash
\* that follows no backslash and precedes no escape character is doubled.
Repair(c) ==
    Flat([i \in 1..Len(c) |->
            IF /\ c[i] = BS
               /\ (i = 1 \/ c[i - 1] # BS)
               /\ (i = Len(c) \/ c[i + 1] \notin EscapeChars)
            THEN <<BS, BS>>
            ELSE <<c[i]>>])

\* re.sub(r"^```(?:json)?", "", candidate).strip()
DropFenceStart(c) ==
    LET rest == Tail(c)
    IN  Strip(IF rest # <<>> /\ Head(rest) = "json" THEN Tail(rest) ELSE rest,
              Whitespace)

\* re.sub(r"```$", "", candidate).strip()
DropFenceEnd(c) ==
    IF c # <<>> /\ c[Len(c)] = FENCE
    THEN Strip(SubSeq(c, 1, Len(c) - 1), Whitespace)
    ELSE c

\* `if candidate.startswith("```"):` and its two substitutions
Unfence(c) ==
    IF c # <<>> /\ Head(c) = FENCE THEN DropFenceEnd(DropFenceStart(c)) ELSE c

\* candidate[start : end + 1] for the first "{" and the last "}", when both
\* are found and end > start.
Slice(c) ==
    LET opens == {i \in 1..Len(c) : c[i] = "{"}
        closes == {i \in 1..Len(c) : c[i] = "}"}
    IN  IF opens = {} \/ closes = {} THEN c
        ELSE LET start == CHOOSE i \in opens : \A j \in opens : i <= j
                 end == CHOOSE i \in closes : \A j \in closes : i >= j
             IN  IF end > start THEN SubSeq(c, start, end) ELSE c

\* parse_json_response(text): whether it returned, what it returned and how
\* many times it called json.loads.
parse_json_response(text) ==
    LET candidate == Slice(Unfence(Strip(text, Whitespace)))
        strict == Loads(candidate)
        second == Loads(Repair(candidate))
    IN  IF strict.ok
        THEN [kind |-> "parse", ok |-> TRUE, value |-> strict.value, loads |-> 1]
        ELSE [kind |-> "parse", ok |-> second.ok, value |-> second.value, loads |-> 2]

ParseInit ==
    /\ given \in [kind : {"parse"}, content : Contents, mode : {"clean", "raw"},
                  wrap : Wraps]
    /\ result = NoResult
    /\ RunIdle
    /\ ClientIdle

parse_reply ==
    /\ given.kind = "parse"
    /\ result = NoResult
    /\ result' = parse_json_response(ReplyText(given))
    /\ UNCHANGED <<given, clientVars, runVars>>

ParseNext == parse_reply

(***************************************************************************)
(* build_stack_hints: the stack corrections of the batch prompt            *)
(***************************************************************************)
\* The most projects a day's record has in the model.
MaxProjects == 13

\* day_data.get("projects", [])[:12]
HintLimit == 12

\* PROJECT_STACK_OVERRIDES, one of its two entries: project -> correction.
PROJECT_STACK_OVERRIDES ==
    [p \in {"AustinsElite (Legacy)"} |->
        "Legacy PHP app (custom framework with some Laravel packages), not Next.js."]

\* A project with an override entry and one without.
ProjectNames == {"AustinsElite (Legacy)", "my-portfolio"}
ProjectLists == UNION {[1..n -> ProjectNames] : n \in 0..MaxProjects}

\* PROJECT_STACK_OVERRIDES.get(project): "" stands for None.
Correction(project) ==
    IF project \in DOMAIN PROJECT_STACK_OVERRIDES
    THEN PROJECT_STACK_OVERRIDES[project]
    ELSE ""

\* The lines of build_stack_hints(day_data), each the pair of f"- {project}:
\* {correction}"; no line stands for "(No project-specific stack overrides.)".
build_stack_hints(projects) ==
    LET head == SubSeq(projects, 1, Min(Len(projects), HintLimit))
        lines == [i \in 1..Len(head) |-> <<head[i], Correction(head[i])>>]
        Corrected(l) == l[2] # ""
    IN  SelectSeq(lines, Corrected)

HintsInit ==
    /\ given \in [kind : {"hints"}, projects : ProjectLists]
    /\ result = NoResult
    /\ RunIdle
    /\ ClientIdle

\* build_prompt puts the text of build_stack_hints under STACK CORRECTIONS.
build_prompt ==
    /\ given.kind = "hints"
    /\ result = NoResult
    /\ result' = [kind |-> "hints", hints |-> build_stack_hints(given.projects)]
    /\ UNCHANGED <<given, clientVars, runVars>>

HintsNext == build_prompt

(***************************************************************************)
(* collect_commits_for_date: the Activity Aggregator of the single flow    *)
(***************************************************************************)
\* The most repositories the registry has in the model.
MaxRepos == 3

\* A line of `git log --format=%H|%ai|%s`: a commit with its author date, or
\* a line that is blank or has no "|".  Dates are numbered in the order of
\* their text, which is what the sort compares.
CommitLine(t) == [commit |-> TRUE, date |-> t]
OtherLine == [commit |-> FALSE, date |-> 0]

\* The outputs of one repository's query.
Logs ==
    {<<>>, <<CommitLine(1)>>, <<CommitLine(2), CommitLine(1)>>,
     <<CommitLine(1), CommitLine(2)>>, <<CommitLine(2), CommitLine(2)>>,
     <<OtherLine, CommitLine(1)>>}

\* A repository of the registry: its directory is missing, its query fails
\* (run() raises), or the query prints a log.
Repos ==
    {[state |-> "missing", log |-> <<>>], [state |-> "fails", log |-> <<>>]}
    \cup [state : {"ok"}, log : Logs]
Registries == UNION {[1..n -> Repos] : n \in 1..MaxRepos}

\* The handler of the query without `except Exception: continue`.
CaughtNever(repo) == FALSE

\* `except Exception: continue` around run(["git", "-C", repo_path, "log", ...])
Caught(repo) == repo.state = "fails"

\* `if not Path(repo_path).is_dir(): continue`
NotADirectory(repo) == repo.state = "missing"

\* The Commit records appended for repository i, in the order of its log.
CommitsOf(repos, i) ==
    LET lines == [j \in 1..Len(repos[i].log) |->
                    [project |-> i, line |-> j, date |-> repos[i].log[j].date,
                     commit |-> repos[i].log[j].commit]]
        IsCommit(l) == l.commit
    IN  IF NotADirectory(repos[i]) \/ Caught(repos[i])
        THEN <<>>
        ELSE SelectSeq(lines, IsCommit)

RECURSIVE Gather(_, _)
Gather(repos, i) ==
    IF i > Len(repos) THEN <<>> ELSE CommitsOf(repos, i) \o Gather(repos, i + 1)

\* commits.sort(key=lambda c: c.date): ascending and stable.
RECURSIVE SortByDate(_)
SortByDate(cs) ==
    IF cs = <<>> THEN <<>>
    ELSE LET k == CHOOSE i \in 1..Len(cs) :
                    /\ \A j \in 1..Len(cs) : cs[i].date <= cs[j].date
                    /\ \A j \in 1..(i - 1) : cs[j].date # cs[i].date
         IN  <<cs[k]>> \o SortByDate(SubSeq(cs, 1, k - 1) \o SubSeq(cs, k + 1, Len(cs)))

\* collect_commits_for_date(target_date) over the registry load_repos()
\* returned: the sorted commits, or the exception of a query that nothing
\* caught.
collect_commits_for_date(repos) ==
    IF \E i \in 1..Len(repos) :
          /\ ~NotADirectory(repos[i])
          /\ repos[i].state = "fails"
          /\ ~Caught(repos[i])
    THEN [kind |-> "collect", raised |-> TRUE, commits |-> <<>>]
    ELSE [kind |-> "collect", raised |-> FALSE, commits |-> SortByDate(Gather(repos, 1))]

CollectInit ==
    /\ given \in [kind : {"collect"}, repos : Registries]
    /\ result = NoResult
    /\ RunIdle
    /\ ClientIdle

collect_commits ==
    /\ given.kind = "collect"
    /\ result = NoResult
    /\ result' = collect_commits_for_date(given.repos)
    /\ UNCHANGED <<given, clientVars, runVars>>

CollectNext == collect_commits

(***************************************************************************)
(* Specifications                                                          *)
(***************************************************************************)
vars == <<clientVars, runVars, pureVars>>

ClientInit ==
    /\ cflow \in Flows
    /\ attempt = 0
    /\ cstate = "calling"
    /\ attempts = <<>>
    /\ cerr = NoErr
    /\ RunIdle
    /\ PureIdle

ClientNext == call_openrouter

SpecClient == ClientInit /\ [][ClientNext]_vars

SpecSelect == SelectInit /\ [][SelectNext]_vars

Spec == RunInit /\ [][RunNext]_vars

SpecRerun == RerunInit /\ [][RerunNext]_vars

SpecTags == TagsInit /\ [][TagsNext]_vars

SpecSlug == SlugInit /\ [][SlugNext]_vars

SpecParse == ParseInit /\ [][ParseNext]_vars

SpecHints == HintsInit /\ [][HintsNext]_vars

SpecCollect == CollectInit /\ [][CollectNext]_vars

(***************************************************************************)
(* Claims about the Generation Client (checked under SpecClient)           *)
(***************************************************************************)
Last(s) == s[Len(s)]

\* The failures the specification calls transient: a connection failure,
\* HTTP 429, and the 5xx class.
Transient(r) == r = URLERR \/ r = 429 \/ (r >= 500 /\ r <= 599)

\* An HTTP status outside 429 and the 5xx class.
NonRetryableStatus(r) == r \in HTTPCodes /\ ~Transient(r)

OnlyTransient == \A i \in 1..Len(attempts) : Transient(attempts[i].resp)

\* C1: a call fed only transient failures raises after exactly 6 request
\* attempts, and no call makes more than 6 attempts.
C1_RetryBound ==
    /\ Len(attempts) <= RetryLimit
    /\ (cstate = "raised" /\ OnlyTransient) => Len(attempts) = RetryLimit

\* C2: while attempts remain, a connection failure, a 429 and every 5xx
\* response lead to another attempt and not to a raised error.
C2_TransientRetried ==
    [][(/\ cstate = "calling"
        /\ attempt < LastAttempt
        /\ Len(attempts') = Len(attempts) + 1
        /\ Transient(Last(attempts').resp))
       => (cstate' = "calling" /\ attempt' = attempt + 1)]_vars

\* C3: a non-retryable HTTP status ends the call at once: it is the last
\* attempt, no sleep follows it, and the error raised carries the status code
\* and at most 400 characters of the body.
C3_NonRetryableRaises ==
    \A i \in 1..Len(attempts) :
        NonRetryableStatus(attempts[i].resp) =>
            /\ i = Len(attempts)
            /\ attempts[i].slept = 0
            /\ cstate = "raised"
            /\ cerr.kind = "http"
            /\ cerr.code = attempts[i].resp
            /\ cerr.body <= BodyLimit

\* C3's case: a 403 with a full-length body arrives after two retried failures.
C3_Witness ==
    /\ cstate = "raised"
    /\ Len(attempts) = 3
    /\ Last(attempts).resp = 403
    /\ cerr.body = BodyLimit

\* C4: when all 6 attempts fail on retryable failures, the error raised is
\* the 'retries exhausted' error, not a per-attempt error.
C4_ExhaustedIsDistinct ==
    (cstate = "raised" /\ Len(attempts) = RetryLimit /\ OnlyTransient)
        => cerr.kind = "exhausted"

(***************************************************************************)
(* Claims about the Target Selector (checked under SpecSelect)             *)
(***************************************************************************)
\* The dates the specification makes eligible: within the inclusive bounds,
\* no error marker, a non-empty ideas list, and no document unless overwrite.
EligibleDays ==
    {d \in DOMAIN daily :
        /\ (args.from_date = 0 \/ d >= args.from_date)
        /\ (args.to_date = 0 \/ d <= args.to_date)
        /\ ~daily[d].error
        /\ daily[d].ideas > 0
        /\ (DocsOf(fs, d) = {} \/ args.overwrite)}

\* C5: the work list is exactly the eligible dates, strictly newest first,
\* and with a cap N > 0 it is the N newest of them.
C5_SelectorContract ==
    pc = "selected" =>
        /\ \A i, j \in 1..Len(targets) : i < j => targets[i] > targets[j]
        /\ Range(targets) \subseteq EligibleDays
        /\ IF args.limit > 0
           THEN /\ Len(targets) = Min(args.limit, Cardinality(EligibleDays))
                /\ \A d \in EligibleDays \ Range(targets) :
                       \A t \in Range(targets) : d < t
           ELSE Range(targets) = EligibleDays

\* C5's case: two dates are eligible and a cap of 1 keeps the newer one.
C5_Witness ==
    /\ pc = "selected"
    /\ args.limit = 1
    /\ EligibleDays = {1, 2}
    /\ targets = <<2>>

(***************************************************************************)
(* Claims about whole runs (checked under Spec and SpecRerun)              *)
(***************************************************************************)
\* A run of the batch flow that follows another one, with the same command
\* line and feed, has made its selection.
SecondBatchRunSelected ==
    /\ prog = "batch"
    /\ run > 1
    /\ ~args.overwrite
    /\ pc \in {"pool", "exit"}
    /\ fault = "none"

\* C6, as stated: after a first run that was no dry run and ended without an
\* exception, the second run's work list is empty.
C6_SecondRunEmpty ==
    (SecondBatchRunSelected /\ ~args.dry_run /\ prev.fault = "none")
        => targets = <<>>

\* C6, amended: the second run targets no date the first run created a
\* document for; without a cap its work list is the first run's work list
\* less the dates the first run created, so it is empty exactly when the
\* first run created every date it targeted.
C6_SecondRunSkipsCreated ==
    (SecondBatchRunSelected /\ prev.fault = "none") =>
        /\ Range(targets) \cap prev.created = {}
        /\ args.limit = 0 => Range(targets) = Range(prev.targets) \ prev.created

\* C6's case: the first run created both dates and the second targets none.
C6_Witness ==
    /\ SecondBatchRunSelected
    /\ prev.created = {1, 2}
    /\ targets = <<>>
    /\ pc = "exit"

\* C7: every date has at most one document, at every point of a run of
\* either flow that started from such a directory.
C7_OneDocumentPerDate ==
    \A d \in Days : Cardinality(DocsOf(fs, d)) <= 1

\* C7's case: an overwrite run replaced a date's document by one with
\* another slug.
C7_Witness ==
    /\ pc = "exit"
    /\ args.overwrite
    /\ \E d \in Days :
         /\ task[d].removed # {}
         /\ task[d].wrote # {}
         /\ task[d].wrote # task[d].removed
         /\ DocsOf(fs, d) = task[d].wrote

\* C8: a decoded result with a missing or empty title, or a missing or empty
\* content, writes no document.
C8_InvalidNeverPersisted ==
    \A d \in Days :
        (/\ task[d].reply.kind = "json"
         /\ (task[d].reply.title = <<>> \/ task[d].reply.content = <<>>))
            => task[d].wrote = {}

\* The tasks of the batch flow in a given state, or with a given outcome.
TasksIn(st) == {d \in Days : task[d].st = st}
Collected(out) == {d \in Days : task[d].st = "collected" /\ task[d].out = out}

\* C9: every targeted day is counted exactly once, as created or as failed;
\* whatever the siblings did, a task that has not finished can still take a
\* step; and when the run ends created + failed = targeted.
C9_EachDayResolvedOnce ==
    (prog = "batch" /\ pc \in {"pool", "exit"} /\ fault = "none" /\ ~args.dry_run) =>
        /\ tally.created = Cardinality(Collected("created"))
        /\ tally.failed = Cardinality(Collected("failed"))
        /\ tally.completed = tally.created + tally.failed
        /\ \A d \in Days : task[d].st # "none" <=> d \in Range(targets)
        /\ (pc = "pool" /\ TasksIn("queued") # {} /\ TasksIn("done") = {})
              => \/ TasksIn("running") # {}
                 \/ Cardinality(TasksIn("running")) < WorkerCount(args)
        /\ pc = "exit" =>
              /\ \A d \in Range(targets) :
                    task[d].st = "collected" /\ task[d].out \in {"created", "failed"}
              /\ tally.created + tally.failed = Len(targets)

\* C9's case: of two targeted days one failed and the other was created.
C9_Witness ==
    /\ prog = "batch"
    /\ pc = "exit"
    /\ Len(targets) = 2
    /\ tally.created = 1
    /\ tally.failed = 1

\* A unit of work failed: a day's task raised, or the single flow's
\* generation, decoding, validation or publishing raised.
UnitFailed ==
    \/ \E d \in Days : task[d].out = "failed"
    \/ fault = "publish"

\* C10, as stated: the exit status is non-zero if and only if a unit of work
\* failed.
C10_ExitIffUnitFailed ==
    exit # Running => (exit # 0 <=> UnitFailed)

\* C10, amended: a run aborted by an error outside the units (step-1
\* regeneration, feed, repository registry, credential) exits non-zero with
\* no unit failed; every other run exits non-zero if and only if a unit failed.
C10_ExitStatus ==
    exit # Running =>
        IF fault \in {"config", "regen"}
        THEN exit # 0 /\ ~UnitFailed
        ELSE exit # 0 <=> UnitFailed

\* C10's case: a batch run in which one day failed and one was created.
C10_Witness ==
    /\ prog = "batch"
    /\ pc = "exit"
    /\ fault = "none"
    /\ exit = 1
    /\ tally.failed = 1
    /\ tally.created = 1

\* The run has had no side effect: no subprocess, no generation request, no
\* git command, and BLOG_DIR as it was.
NoSideEffects ==
    /\ effects.subproc = 0
    /\ effects.requests = {}
    /\ effects.git = <<>>
    /\ fs = fs0

\* C11: a dry run of either flow, whatever the other flags, has no side
\* effects, and when no exception ends it, it exits with status 0.
C11_DryRunNoEffects ==
    args.dry_run =>
        /\ NoSideEffects
        /\ (exit # Running /\ fault = "none") => exit = 0

\* C12: with overwrite, a date that had a document when the run started has
\* one when the run has ended, whether its generation succeeded or failed.
C12_PriorDocumentSurvives ==
    (pc = "exit" /\ args.overwrite) =>
        \A d \in Days : DocsOf(fs0, d) # {} => DocsOf(fs, d) # {}

\* The order of the commands of git_commit_and_push.
GitOrder == <<"add", "commit", "push">>

\* C13: the git commands run in the order add, commit, push, each at most
\* once; a command that fails is the last one run, the run ends with an
\* exception and status 1, and the document just written is still on disk.
C13_GitFailureEndsRun ==
    LET g == effects.git IN
    /\ Len(g) <= Len(GitOrder)
    /\ \A i \in 1..Len(g) :
         /\ g[i].op = GitOrder[i]
         /\ ~g[i].ok =>
              /\ i = Len(g)
              /\ pc = "exit" /\ exit = 1 /\ fault = "publish"
              /\ task[args.date].wrote # {}
              /\ task[args.date].wrote \subseteq fs

C13_Witness ==
    /\ Len(effects.git) = 2
    /\ effects.git[1].ok
    /\ ~effects.git[2].ok
    /\ pc = "exit"

\* The run is a re-run of the single-date flow after a run that failed while
\* publishing.
RerunAfterPublishFailure ==
    /\ prog = "single"
    /\ run > 1
    /\ prev.fault = "publish"

\* C14 as stated: the re-run, when it ends without an exception, has run the
\* three git commands and has sent no generation request.
C14_RerunPublishes ==
    (RerunAfterPublishFailure /\ pc = "exit" /\ fault = "none") =>
        /\ effects.requests = {}
        /\ Len(effects.git) = Len(GitOrder)
        /\ \A i \in 1..Len(effects.git) : effects.git[i].ok

\* C14: after a publishing failure the document is on disk when the flow is
\* run again; without overwrite the re-run has no side effect and exits 0,
\* and in any re-run a git command runs only after a new generation request.
C14_RerunSkipsOrRegenerates ==
    RerunAfterPublishFailure =>
        /\ DocsOf(fs0, args.date) # {}
        /\ ~args.overwrite =>
             /\ NoSideEffects
             /\ pc = "exit" => (exit = 0 /\ fault = "none")
        /\ effects.git # <<>> => args.date \in effects.requests

C14_Witness ==
    /\ RerunAfterPublishFailure
    /\ ~args.overwrite
    /\ pc = "exit"
    /\ exit = 0

\* C15: when the single-date flow finds no commit for the date, it exits 0
\* having sent no request, run no git command, started no unit and left
\* BLOG_DIR as it was, with overwrite and an existing document too.
C15_NoCommitsNoEffects ==
    (prog = "single" /\ commits = 0) =>
        /\ pc = "exit" /\ exit = 0 /\ fault = "none"
        /\ NoSideEffects
        /\ \A d \in Days : task[d] = NoTask

C15_Witness ==
    /\ prog = "single"
    /\ commits = 0
    /\ args.overwrite
    /\ DocsOf(fs, args.date) # {}
    /\ pc = "exit"

\* The sleep recorded with the i-th request of the call (SpecClient).
Wait(i) == attempts[i].slept

\* C19: every request but the last of a call is followed by exactly one
\* sleep before the next request, and the request that ends the call by
\* none; the first sleep is 2 or 3 seconds, each step from one sleep to the
\* next is twice the step before it, and no sleep is longer than 30 seconds.
C19_BackoffSchedule ==
    LET n == Len(attempts) IN
    /\ \A i \in 1..n :
         /\ Wait(i) <= 30
         /\ i < n => Wait(i) > 0
    /\ (n > 0 /\ cstate = "calling") => Wait(n) > 0
    /\ cstate \in {"returned", "raised"} => Wait(n) = 0
    /\ (n > 0 /\ Wait(1) > 0) => Wait(1) \in 2..3
    /\ \A i \in 1..n : (i + 1 <= n /\ Wait(i + 1) > 0) => Wait(i + 1) > Wait(i)
    /\ \A i \in 1..n : (i + 2 <= n /\ Wait(i + 2) > 0) =>
         Wait(i + 2) - Wait(i + 1) = 2 * (Wait(i + 1) - Wait(i))

C19_Witness ==
    /\ cstate = "raised"
    /\ Len(attempts) = RetryLimit
    /\ Wait(LastAttempt) = 18

\* C20: a document is written for a date only by a unit whose request
\* returned, whose reply decoded to a mapping and passed the flow's
\* validation (content not blank; in the batch flow title not blank too); a
\* unit that failed wrote nothing, and every document that was not in
\* BLOG_DIR when the run started was written by such a unit.
C20_WriteOnlyAfterValidation ==
    /\ \A d \in Days :
         /\ task[d].wrote # {} =>
              /\ task[d].out = "created"
              /\ task[d].reply.kind = "json"
              /\ Strip(task[d].reply.content, Whitespace) # <<>>
              /\ prog = "batch" => Strip(task[d].reply.title, Whitespace) # <<>>
         /\ task[d].out = "failed" => task[d].wrote = {}
    /\ fs \ fs0 \subseteq UNION {task[d].wrote : d \in Days}

C20_Witness ==
    \E d \in Days :
        /\ task[d].out = "failed"
        /\ task[d].reply.kind = "json"
        /\ task[d].reply.content = <<>>
        /\ DocsOf(fs, d) \subseteq fs0

(***************************************************************************)
(* Claims about the pure functions (checked under SpecTags, SpecSlug and   *)
(* SpecParse)                                                              *)
(***************************************************************************)
\* C16: the tag list written has between 3 and 6 entries; with fewer than 3
\* usable entries it is those entries followed by fallback tags of the flow,
\* exactly 3 in all; with more than 6 it is the first 6 usable entries; and
\* otherwise it is the usable entries.
C16_TagsNormalized ==
    result.kind = "tags" =>
        LET u == Usable(TagList(given.value))
            out == result.tags
        IN  /\ Len(out) \in 3..6
            /\ Len(u) < 3 =>
                 /\ Len(out) = 3
                 /\ SubSeq(out, 1, Len(u)) = u
                 /\ \A i \in (Len(u) + 1)..3 : out[i] \in Range(FallbackTags(given.flow))
            /\ Len(u) > 6 => out = SubSeq(u, 1, 6)
            /\ Len(u) \in 3..6 => out = u

C16_Witness ==
    /\ result.kind = "tags"
    /\ Len(Usable(TagList(given.value))) > 6
    /\ Len(result.tags) = 6

\* C17: the slug of any title is not empty, has at most 80 characters, all
\* of them lower-case letters, digits or hyphens, neither begins nor ends
\* with a hyphen and has no two hyphens in a row.
C17_SlugShape ==
    result.kind = "slug" =>
        LET s == result.slug IN
        /\ Len(s) \in 1..80
        /\ \A i \in 1..Len(s) : s[i] \in LowerLetters \cup Digits \cup {"-"}
        /\ s[1] # "-"
        /\ s[Len(s)] # "-"
        /\ \A i \in 1..(Len(s) - 1) : ~(s[i] = "-" /\ s[i + 1] = "-")

\* The reply has its object alone, in fence markers, or after prose that has
\* no brace of its own.
WrappedPlainly == given.wrap \in {"plain", "fence", "fence_json", "prose"}

\* The positions of the backslashes of the string the reply carries.
Backslashes == {i \in 1..Len(given.content) : given.content[i] = BS}

\* What the clean strict-JSON reply of the same content decodes to.
CleanRecord == parse_json_response(Object(given.content, "clean"))

Touched(d) == task[d].removed \cup task[d].wrote

\* C21: in the batch flow every file a task deletes or writes carries the
\* task's date, no file is deleted or written by two tasks, the documents of
\* a date whose task has not started are those of the start of the run, and
\* while the pool runs the index of existing documents is the one computed
\* at the start.
C21_TasksTouchOwnDate ==
    prog = "batch" =>
        /\ \A d \in Days : \A f \in Touched(d) : f.day = d
        /\ \A d, e \in Days : d # e => Touched(d) \cap Touched(e) = {}
        /\ \A d \in Days :
             task[d].st \in {"none", "queued"} => DocsOf(fs, d) = DocsOf(fs0, d)
        /\ pc = "pool" => existing = existing_posts_by_date(fs0)

C21_Witness ==
    /\ prog = "batch"
    /\ \E d, e \in Days :
         /\ d # e
         /\ task[d].st = "running"
         /\ task[e].st = "running"
         /\ task[d].removed # {}
         /\ DocsOf(fs, e) = {}

\* load_api_key() has resolved no credential: it raised, or it returned an
\* empty key.
CredentialUnresolved == fault = "config" \/ api_key = ""

\* C22: a run with a configuration error (no feed, no credential) has ended
\* with status 1, having sent no generation request, run no git command,
\* started no task and left BLOG_DIR as it was.
C22_ConfigErrorAbortsFirst ==
    CredentialUnresolved =>
        /\ pc = "exit" /\ exit = 1
        /\ effects.requests = {}
        /\ effects.git = <<>>
        /\ fs = fs0
        /\ \A d \in Days : task[d] = NoTask

\* C23: the prompt has, for every project of the day's record that has an
\* override entry, a line with the project and the full text of its
\* override, wherever the project stands in the list.
C23_EveryOverrideEmbedded ==
    result.kind = "hints" =>
        \A i \in 1..Len(given.projects) :
            given.projects[i] \in DOMAIN PROJECT_STACK_OVERRIDES =>
                \E k \in 1..Len(result.hints) :
                    result.hints[k] = <<given.projects[i],
                                        PROJECT_STACK_OVERRIDES[given.projects[i]]>>

\* The commit lines of the repositories whose query succeeded, as pairs of
\* repository and line number.
CommitsQueried ==
    UNION {{<<i, j>> : j \in {n \in 1..Len(given.repos[i].log) :
                                  given.repos[i].log[n].commit}} :
           i \in {r \in 1..Len(given.repos) : given.repos[r].state = "ok"}}

=============================================================================
